---- MODULE Spec2Model ----
(***************************************************************************)
(* Model of src/dashboard.py: the Streamlit dashboard script that loads    *)
(* per-section statistics, rescales every section average to 1..10,        *)
(* classifies the scores into three colours and shows a global index.      *)
(*                                                                         *)
(* Numbers.  The script computes in IEEE-754 binary floating point         *)
(* (round to nearest, ties to even).  A float is modelled by the integer   *)
(* n that stands for n / Unit; only integers whose significand fits        *)
(* FloatPrecision bits are floats, and every arithmetic operation rounds   *)
(* its exact result to the nearest float, as the hardware does.  The       *)
(* format is binary64 with the significand and the fraction shortened;    *)
(* the values of the model stay far from overflow, so there is no          *)
(* infinity.                                                               *)
(***************************************************************************)
EXTENDS Integers, Sequences, FiniteSets, TLC

VARIABLES
    pc,          \* position of the running script
    clicked,     \* whether this run was triggered by the export button
    cache,       \* st.cache_data entry of load_stats: Unset or <<entry>>
    since_get,   \* seconds since the last GET /stats was issued (Never: none yet)
    loaded,      \* what load_stats returned to this run, and whether from the cache
    df,          \* the script's DataFrame, a sequence of rows
    global_mean, \* Unset or <<float>>
    global_color,\* Unset or <<colour>>
    progress,    \* Unset or <<the fraction passed to st.progress>>
    metrics,     \* Unset or <<the values of the two computed metrics>>
    df_sorted,   \* Unset or <<the sorted copy made for the bar chart>>
    page,        \* the elements this run has put on the page
    call,        \* pure-function harness: the arguments drawn by InitPure
    ret          \* pure-function harness: results of the calls made so far

pureVars == <<call, ret>>
scriptVars == <<pc, clicked, cache, since_get, loaded, df, global_mean,
                global_color, progress, metrics, df_sorted, page>>
vars == <<pc, clicked, cache, since_get, loaded, df, global_mean,
          global_color, progress, metrics, df_sorted, page, call, ret>>

----------------------------------------------------------------------------
(* Bounds of the model *)

FloatPrecision == 5     \* significand bits of the float format (binary64: 53)
FracBits == 3           \* a float is a multiple of 2^-FracBits (binary64: 1074)
MaxMoyenne == 8         \* raw averages of the pure harness range over [0, MaxMoyenne]
MaxRows == 2            \* records in one /stats response

----------------------------------------------------------------------------
(* Floating point *)

RECURSIVE Pow2(_)
Pow2(k) == IF k <= 0 THEN 1 ELSE 2 * Pow2(k - 1)

RECURSIVE BitLen(_)
BitLen(n) == IF n <= 0 THEN 0 ELSE 1 + BitLen(n \div 2)

Unit == Pow2(FracBits)

Abs(n) == IF n < 0 THEN -n ELSE n

\* The spacing of the floats around the magnitude q (q >= 0, in units).
Spacing(q) ==
    LET e == BitLen(q) - FloatPrecision
    IN  IF e > 0 THEN Pow2(e) ELSE 1

IsFloat(n) == Abs(n) % Spacing(Abs(n)) = 0

\* The float nearest to the rational num / den (in units, den > 0),
\* ties to the float with the even significand.
FlRound(num, den) ==
    LET an == Abs(num)
        q  == an \div den
        s  == Spacing(q)
        lo == (q \div s) * s
        hi == lo + s
        twice == 2 * (an - lo * den)
        r  == IF twice < s * den THEN lo
              ELSE IF twice > s * den THEN hi
              ELSE IF (lo \div s) % 2 = 0 THEN lo ELSE hi
    IN  IF num < 0 THEN -r ELSE r

\* Python's float of an integer literal.
Lit(k) == FlRound(k * Unit, 1)

\* The value of 0.0 / 0.0 and of the mean of no values: not a number.
NaN == -(Pow2(30))
IsNaN(x) == x = NaN

FlAdd(x, y) == IF IsNaN(x) \/ IsNaN(y) THEN NaN ELSE FlRound(x + y, 1)
FlSub(x, y) == IF IsNaN(x) \/ IsNaN(y) THEN NaN ELSE FlRound(x - y, 1)
FlMul(x, y) == IF IsNaN(x) \/ IsNaN(y) THEN NaN ELSE FlRound(x * y, Unit)
FlDiv(x, y) ==
    IF IsNaN(x) \/ IsNaN(y) \/ y = 0 THEN NaN
    ELSE IF y < 0 THEN FlRound(-(x * Unit), -y) ELSE FlRound(x * Unit, y)
FlLe(x, y) == ~IsNaN(x) /\ ~IsNaN(y) /\ x <= y

----------------------------------------------------------------------------
(* The pure functions of the script *)

EfficacitePersonnelle == "Efficacité personnelle"
EnergieEtEngagement == "Énergie et engagement"

\* Faulty variant: the lookup matches the names whatever their case.
detect_max_scale_nocase(section) ==
    IF section \in {EfficacitePersonnelle, "efficacité personnelle"} THEN 4
    ELSE IF section \in {EnergieEtEngagement, "ÉNERGIE ET ENGAGEMENT"} THEN 7
    ELSE 5

detect_max_scale(section) ==
    IF section \in {EfficacitePersonnelle} THEN 4
    ELSE IF section \in {EnergieEtEngagement} THEN 7
    ELSE 5

\* Faulty variant: the subtraction written the wrong way round.
normalize_score_reversed(row) ==
    LET max_scale == detect_max_scale(row.section)
    IN  FlAdd(Lit(1),
              FlMul(FlSub(Lit(1), row.moyenne),
                    FlDiv(Lit(9), Lit(max_scale - 1))))

\* Faulty variant: the naive rescaling moyenne * 10 / max_scale, which maps 1 to
\* 10 / max_scale instead of 1.
normalize_score_ratio(row) ==
    LET max_scale == detect_max_scale(row.section)
    IN  FlMul(row.moyenne, FlDiv(Lit(10), Lit(max_scale)))

normalize_score(row) ==
    LET max_scale == detect_max_scale(row.section)
    IN  FlAdd(Lit(1),
              FlMul(FlSub(row.moyenne, Lit(1)),
                    FlDiv(Lit(9), Lit(max_scale - 1))))

Rouge == "#e74c3c"
Jaune == "#f1c40f"
Vert == "#2ecc71"

\* Faulty variant: strict comparisons, so that the boundaries 3 and 6 move up a tier.
score_to_color_strict(score) ==
    IF ~IsNaN(score) /\ score < Lit(3) THEN Rouge
    ELSE IF ~IsNaN(score) /\ score < Lit(6) THEN Jaune
    ELSE Vert

score_to_color(score) ==
    IF FlLe(score, Lit(3)) THEN Rouge
    ELSE IF FlLe(score, Lit(6)) THEN Jaune
    ELSE Vert

----------------------------------------------------------------------------
(* The script.  Streamlit runs it top to bottom on every page load and on  *)
(* every interaction; pc is the statement the current run is about to      *)
(* execute.                                                                *)

Unset == <<>>
Never == -1

TTL == 300

\* Elapsed times the clock can advance by in one step: sums of these land
\* on both sides of TTL (TTL - 1 and TTL included).
TickSteps == {TTL \div 2 - 1, TTL \div 2}

Elapse(t, d) == IF t = Never THEN Never ELSE IF t + d >= TTL THEN TTL ELSE t + d

RenderSections == {EfficacitePersonnelle, EnergieEtEngagement, "Charge de travail"}
\* Raw averages of a response: below the scale, inside it, above it.
MoyenneChoices == {Lit(0), Lit(3), Lit(8)}
Rows == [section : RenderSections, moyenne : MoyenneChoices, nb_reponses : {10}]
DataSets == UNION { [1..n -> Rows] : n \in 0..MaxRows }

\* JSON bodies of a 200 response: with a "stats" list, or without the key.
Bodies == { [stats |-> d] : d \in DataSets } \cup { [detail |-> "Not Found"] }

\* res.json().get("stats", [])
JsonGetStats(body) == IF "stats" \in DOMAIN body THEN body.stats ELSE <<>>

\* Faulty variant: no cache at all (the decorator left out).
CacheFresh_never(entry) == FALSE

\* @st.cache_data(ttl=300): an entry is served while it is younger than ttl.
CacheFresh(entry) == entry.age < TTL

\* Faulty variant: the emptiness test dropped.
df_empty_never(d) == FALSE

\* df.empty
df_empty(d) == Len(d) = 0

\* Faulty variant: st.stop() left out, the script runs on after the warning.
AfterWarning_continue == "normalize"

\* st.warning(...); st.stop(): the run ends there.
AfterWarning == "stopped"

\* df["score_10"] = df.apply(normalize_score, axis=1)
WithScore10(d) ==
    [i \in 1..Len(d) |-> [score_10 |-> normalize_score(d[i])] @@ d[i]]

\* df["couleur"] = df["score_10"].apply(score_to_color)
WithCouleur(d) ==
    [i \in 1..Len(d) |-> [couleur |-> score_to_color(d[i].score_10)] @@ d[i]]

RECURSIVE FlSum(_)
FlSum(xs) ==
    IF Len(xs) = 0 THEN 0
    ELSE FlAdd(FlSum(SubSeq(xs, 1, Len(xs) - 1)), xs[Len(xs)])

\* Series.mean(): the sum of the values divided by their number; NaN for none.
Mean(xs) == FlDiv(FlSum(xs), Lit(Len(xs)))

\* Faulty variant: the mean taken over the raw averages.
GlobalMean_raw(d) == Mean([i \in 1..Len(d) |-> d[i].moyenne])

\* df["score_10"].mean()
GlobalMean(d) == Mean([i \in 1..Len(d) |-> d[i].score_10])

\* Python's min(x, y): y if y < x, else x.
PyMin(x, y) == IF ~IsNaN(x) /\ ~IsNaN(y) /\ y < x THEN y ELSE x

\* min(global_mean / 10, 1)
ProgressFraction(m) == PyMin(FlDiv(m, Lit(10)), Lit(1))

RECURSIVE IntSum(_)
IntSum(xs) == IF Len(xs) = 0 THEN 0 ELSE IntSum(SubSeq(xs, 1, Len(xs) - 1)) + xs[Len(xs)]

\* Faulty variant: the sort done in place (inplace=True): df itself is reordered.
DfAfterSort_inplace(d, sorted) == sorted

\* df after df.sort_values(...): sort_values returns a new frame.
DfAfterSort(d, sorted) == d

\* df.sort_values("score_10", ascending=True): the default sort is not
\* stable, so rows of equal score may come out in any order.
SortValues(d) ==
    { s \in { [i \in 1..Len(d) |-> d[p[i]]] : p \in Permutations(1..Len(d)) } :
        \A i \in 1..(Len(d) - 1) : s[i].score_10 <= s[i + 1].score_10 }

InitScript ==
    /\ pc = "load_stats"
    /\ clicked = FALSE
    /\ cache = Unset
    /\ since_get = Never
    /\ loaded = Unset
    /\ df = <<>>
    /\ global_mean = Unset
    /\ global_color = Unset
    /\ progress = Unset
    /\ metrics = Unset
    /\ df_sorted = Unset
    /\ page = {"title"}

Init ==
    /\ InitScript
    /\ call = [section |-> "", a |-> 0, b |-> 0]
    /\ ret = [max_scale |-> Unset, score_a |-> Unset, score_b |-> Unset,
              color |-> Unset]

\* The cache holds a value of load_stats that has not expired.
CacheHit == cache # Unset /\ CacheFresh(cache[1])

\* Time passes; it can at any point of a run, and between runs.
Tick ==
    /\ \E d \in TickSteps :
         /\ since_get' = Elapse(since_get, d)
         /\ cache' = IF cache = Unset THEN Unset
                     ELSE <<[cache[1] EXCEPT !.age = Elapse(@, d)]>>
    /\ UNCHANGED <<pc, clicked, loaded, df, global_mean, global_color, progress,
                   metrics, df_sorted, page>>
    /\ UNCHANGED pureVars

\* df = load_stats(), served from the cache: the caller gets a copy of the
\* cached frame.  Whether the st.error of the cached call is shown again
\* depends on the Streamlit version.
LoadStatsCached ==
    /\ pc = "load_stats"
    /\ CacheHit
    /\ loaded' = <<[value |-> cache[1].value, cached |-> TRUE]>>
    /\ df' = cache[1].value
    /\ \E replay \in BOOLEAN :
         page' = IF replay THEN page \cup cache[1].banner ELSE page
    /\ pc' = "guard"
    /\ UNCHANGED <<clicked, cache, since_get, global_mean, global_color,
                   progress, metrics, df_sorted>>
    /\ UNCHANGED pureVars

\* df = load_stats(), not in the cache (or expired): the function body
\* runs and issues requests.get(f"{API_URL}/stats", timeout=15).
LoadStatsGet ==
    /\ pc = "load_stats"
    /\ ~CacheHit
    /\ cache' = Unset
    /\ since_get' = 0
    /\ pc' = "fetching"
    /\ UNCHANGED <<clicked, loaded, df, global_mean, global_color, progress,
                   metrics, df_sorted, page>>
    /\ UNCHANGED pureVars

\* load_stats returns `value` having shown `banner`: the result is cached and
\* handed to the script.
Return(outcome, value, banner) ==
    /\ cache' = <<[value |-> value, age |-> 0, banner |-> banner,
                   outcome |-> outcome]>>
    /\ loaded' = <<[value |-> value, cached |-> FALSE]>>
    /\ df' = value
    /\ page' = page \cup banner
    /\ pc' = "guard"
    /\ UNCHANGED <<clicked, since_get, global_mean, global_color, progress,
                   metrics, df_sorted>>
    /\ UNCHANGED pureVars

\* status 200 and a body that decodes.
GetOk ==
    /\ pc = "fetching"
    /\ \E body \in Bodies : Return("ok", JsonGetStats(body), {})

\* any other status.
GetNot200 ==
    /\ pc = "fetching"
    /\ \E status \in {404, 500, 503} : Return("not_200", <<>>, {"error_api"})

\* requests.get raises (connection error, timeout).
GetRaises ==
    /\ pc = "fetching"
    /\ Return("get_raised", <<>>, {"error_connexion"})

\* status 200 but res.json() (or .get on what it decoded) raises.
JsonRaises ==
    /\ pc = "fetching"
    /\ Return("json_raised", <<>>, {"error_connexion"})

\* if df.empty: st.warning(...); st.stop()
GuardStop ==
    /\ pc = "guard"
    /\ df_empty(df)
    /\ page' = page \cup {"warning"}
    /\ pc' = AfterWarning
    /\ UNCHANGED <<clicked, cache, since_get, loaded, df, global_mean,
                   global_color, progress, metrics, df_sorted>>
    /\ UNCHANGED pureVars

GuardPass ==
    /\ pc = "guard"
    /\ ~df_empty(df)
    /\ pc' = "normalize"
    /\ UNCHANGED <<clicked, cache, since_get, loaded, df, global_mean,
                   global_color, progress, metrics, df_sorted, page>>
    /\ UNCHANGED pureVars

Normalize ==
    /\ pc = "normalize"
    /\ df' = WithScore10(df)
    /\ pc' = "couleur"
    /\ UNCHANGED <<clicked, cache, since_get, loaded, global_mean, global_color,
                   progress, metrics, df_sorted, page>>
    /\ UNCHANGED pureVars

Couleur ==
    /\ pc = "couleur"
    /\ df' = WithCouleur(df)
    /\ pc' = "global"
    /\ UNCHANGED <<clicked, cache, since_get, loaded, global_mean, global_color,
                   progress, metrics, df_sorted, page>>
    /\ UNCHANGED pureVars

\* global_mean, global_color, and st.progress(min(global_mean / 10, 1)),
\* which raises when its argument is not in [0.0, 1.0].
Global ==
    /\ pc = "global"
    /\ LET m == GlobalMean(df)
           f == ProgressFraction(m)
       IN  /\ global_mean' = <<m>>
           /\ global_color' = <<score_to_color(m)>>
           /\ progress' = <<f>>
           /\ IF ~IsNaN(f) /\ 0 <= f /\ f <= Lit(1)
              THEN /\ page' = page \cup {"index"}
                   /\ pc' = "metrics"
              ELSE /\ page' = page \cup {"exception"}
                   /\ pc' = "exception"
    /\ UNCHANGED <<clicked, cache, since_get, loaded, df, metrics, df_sorted>>
    /\ UNCHANGED pureVars

Metrics ==
    /\ pc = "metrics"
    /\ metrics' = <<[sections |-> Len(df),
                     reponses |-> IntSum([i \in 1..Len(df) |-> df[i].nb_reponses])]>>
    /\ page' = page \cup {"metrics"}
    /\ pc' = "charts"
    /\ UNCHANGED <<clicked, cache, since_get, loaded, df, global_mean,
                   global_color, progress, df_sorted>>
    /\ UNCHANGED pureVars

\* the radar chart of df, then df_sorted and the bar chart of it.
Charts ==
    /\ pc = "charts"
    /\ \E sorted \in SortValues(df) :
         /\ df_sorted' = <<sorted>>
         /\ df' = DfAfterSort(df, sorted)
    /\ page' = page \cup {"radar", "bar"}
    /\ pc' = "export"
    /\ UNCHANGED <<clicked, cache, since_get, loaded, global_mean, global_color,
                   progress, metrics>>
    /\ UNCHANGED pureVars

\* if st.button(...): the GET /export and what it shows.
Export ==
    /\ pc = "export"
    /\ IF clicked
       THEN \E outcome \in {{"download", "success"}, {"export_error"},
                            {"export_exception"}} :
                page' = page \cup {"button"} \cup outcome
       ELSE page' = page \cup {"button"}
    /\ pc' = "done"
    /\ UNCHANGED <<clicked, cache, since_get, loaded, df, global_mean,
                   global_color, progress, metrics, df_sorted>>
    /\ UNCHANGED pureVars

\* The next run of the script: a page load, or a click on the export
\* button when the last run showed it.  A run starts from nothing but the
\* cache.
Rerun ==
    /\ pc \in {"stopped", "exception", "done"}
    /\ clicked' \in (IF "button" \in page THEN BOOLEAN ELSE {FALSE})
    /\ pc' = "load_stats"
    /\ loaded' = Unset
    /\ df' = <<>>
    /\ global_mean' = Unset
    /\ global_color' = Unset
    /\ progress' = Unset
    /\ metrics' = Unset
    /\ df_sorted' = Unset
    /\ page' = {"title"}
    /\ UNCHANGED <<cache, since_get>>
    /\ UNCHANGED pureVars

Next ==
    \/ Tick
    \/ LoadStatsCached \/ LoadStatsGet
    \/ GetOk \/ GetNot200 \/ GetRaises \/ JsonRaises
    \/ GuardStop \/ GuardPass
    \/ Normalize \/ Couleur \/ Global \/ Metrics \/ Charts \/ Export
    \/ Rerun

Spec == Init /\ [][Next]_vars

----------------------------------------------------------------------------
(* Pure-function harness: InitPure draws a section name and two raw        *)
(* averages, the actions call the functions on them.                       *)

SectionNames ==
    { EfficacitePersonnelle, EnergieEtEngagement,
      "efficacité personnelle", "ÉNERGIE ET ENGAGEMENT",
      "Charge de travail", "" }

Floats(lo, hi) == { n \in (lo * Unit)..(hi * Unit) : IsFloat(n) }

InitPure ==
    /\ InitScript
    /\ call \in [section : SectionNames,
                 a : Floats(0, MaxMoyenne),
                 b : Floats(0, MaxMoyenne)]
    /\ ret = [max_scale |-> Unset, score_a |-> Unset, score_b |-> Unset,
              color |-> Unset]

CallDetectMaxScale ==
    /\ ret.max_scale = Unset
    /\ ret' = [ret EXCEPT !.max_scale = <<detect_max_scale(call.section)>>]
    /\ UNCHANGED call
    /\ UNCHANGED scriptVars

CallNormalizeScore ==
    /\ ret.score_a = Unset
    /\ ret' = [ret EXCEPT
                 !.score_a = <<normalize_score([section |-> call.section,
                                                moyenne |-> call.a])>>,
                 !.score_b = <<normalize_score([section |-> call.section,
                                                moyenne |-> call.b])>>]
    /\ UNCHANGED call
    /\ UNCHANGED scriptVars

\* score_to_color is called on the drawn float itself, so that every float
\* of the range is classified, whether or not it is some section's score.
CallScoreToColor ==
    /\ ret.color = Unset
    /\ ret' = [ret EXCEPT !.color = <<score_to_color(call.a)>>]
    /\ UNCHANGED call
    /\ UNCHANGED scriptVars

NextPure == CallDetectMaxScale \/ CallNormalizeScore \/ CallScoreToColor

SpecPure == InitPure /\ [][NextPure]_vars

----------------------------------------------------------------------------
(* Properties of the pure functions, checked under SpecPure *)

ScaleOf(section) ==
    IF section = "Efficacité personnelle" THEN 4
    ELSE IF section = "Énergie et engagement" THEN 7
    ELSE 5

\* C1: for every section name, normalize_score of a record whose moyenne
\* is 1 is exactly 1, and of a record whose moyenne is the section's
\* maximum (4, 5 or 7) is exactly 10.
C1_EndpointsExact ==
    ret.score_a # Unset =>
        /\ call.a = 1 * Unit => ret.score_a[1] = 1 * Unit
        /\ call.a = ScaleOf(call.section) * Unit => ret.score_a[1] = 10 * Unit

C1_Witness ==
    /\ ret.score_a # Unset /\ ret.score_b # Unset
    /\ call.section = "Énergie et engagement"
    /\ call.a = 7 * Unit /\ ret.score_a[1] = 10 * Unit
    /\ call.b = 1 * Unit /\ ret.score_b[1] = 1 * Unit

\* C2: the classification is total with closed-low boundaries: a score
\* <= 3 is red (Low), a score in (3, 6] is yellow (Medium), a score > 6 is
\* green (High); every score gets exactly one of the three colours.
C2_TierBoundaries ==
    ret.color # Unset =>
        LET x == call.a
            c == ret.color[1]
        IN  /\ c \in {"#e74c3c", "#f1c40f", "#2ecc71"}
            /\ (c = "#e74c3c") <=> (x <= 3 * Unit)
            /\ (c = "#f1c40f") <=> (3 * Unit < x /\ x <= 6 * Unit)
            /\ (c = "#2ecc71") <=> (x > 6 * Unit)

\* The float just above 3 is classified Medium.
C2_Witness ==
    /\ ret.color = <<"#f1c40f">>
    /\ call.a = 3 * Unit + 1

\* C3: detect_max_scale is a closed, case-sensitive lookup: 4 for exactly
\* 'Efficacité personnelle', 7 for exactly 'Énergie et engagement', 5 for
\* every other name (case variants and the empty string included); the
\* result is in {4, 5, 7}, never 1, so the divisor max_scale - 1 of
\* normalize_score is never zero.
C3_ClosedLookup ==
    ret.max_scale # Unset =>
        LET m == ret.max_scale[1]
        IN  /\ m \in {4, 5, 7}
            /\ (m = 4) <=> (call.section = "Efficacité personnelle")
            /\ (m = 7) <=> (call.section = "Énergie et engagement")
            /\ m # 1 /\ Lit(m - 1) # 0
            /\ ret.score_a # Unset => ~IsNaN(ret.score_a[1])

C3_Witness ==
    /\ ret.max_scale = <<5>>
    /\ call.section = "efficacité personnelle"
    /\ ret.score_a # Unset

\* C4 as stated: for a fixed section, a < b implies
\* normalize_score(a) < normalize_score(b).
C4_StrictlyIncreasing ==
    (ret.score_a # Unset /\ call.a < call.b) => ret.score_a[1] < ret.score_b[1]

\* C4 amended: for a fixed section normalize_score is non-decreasing in
\* moyenne (two distinct raw averages can round to the same score), and for
\* moyenne in [1, detect_max_scale(section)] the score lies in [1, 10].
C4_NonDecreasing ==
    ret.score_a # Unset =>
        /\ call.a < call.b => ret.score_a[1] <= ret.score_b[1]
        /\ (1 * Unit <= call.a /\ call.a <= ScaleOf(call.section) * Unit)
              => (1 * Unit <= ret.score_a[1] /\ ret.score_a[1] <= 10 * Unit)

\* Two distinct raw averages inside the section's range with the same score.
C4_Witness ==
    /\ ret.score_a # Unset
    /\ 1 * Unit <= call.a /\ call.a < call.b
    /\ call.b <= ScaleOf(call.section) * Unit
    /\ ret.score_a[1] = ret.score_b[1]

----------------------------------------------------------------------------
(* Properties of the script, checked under Spec *)

\* The fetched columns of a frame.
Fetched(d) ==
    [i \in 1..Len(d) |-> [section |-> d[i].section, moyenne |-> d[i].moyenne,
                          nb_reponses |-> d[i].nb_reponses]]

NoData == loaded # Unset /\ Len(loaded[1].value) = 0

\* C5: over an empty record set the global index is never computed: with
\* zero records no global mean and no tier ever get a value (the run ends
\* at the empty-data guard instead).
C5_NoGlobalIndexOnEmpty ==
    NoData => /\ global_mean = Unset
              /\ global_color = Unset
              /\ pc \in {"guard", "stopped"}

C5_Witness ==
    /\ NoData /\ cache[1].outcome = "ok"
    /\ pc = "stopped"
    /\ global_mean = Unset /\ global_color = Unset

\* C6: every failure of the fetch (a status other than 200, an exception of
\* the request or of the JSON decoding) makes load_stats return the empty
\* record set and raises nothing; and a run whose record set is empty shows
\* the no-data warning and stops: it never reaches the normalization, the
\* global index, the charts or the export step.
C6_FailureGivesEmptyAndStops ==
    /\ (loaded # Unset /\ cache[1].outcome \in {"not_200", "get_raised", "json_raised"})
          => (Len(loaded[1].value) = 0 /\ pc # "exception")
    /\ NoData =>
          /\ pc \in {"guard", "stopped"}
          /\ pc = "stopped" => "warning" \in page
          /\ page \cap {"index", "metrics", "radar", "bar", "button",
                        "download", "success", "export_error",
                        "export_exception", "exception"} = {}
          /\ df = <<>> /\ progress = Unset /\ metrics = Unset /\ df_sorted = Unset

C6_Witness ==
    /\ NoData /\ cache[1].outcome = "json_raised"
    /\ pc = "stopped" /\ "warning" \in page

\* C7: normalizing preserves the record set: the frame keeps one row per
\* fetched record, in the fetched order, with section, moyenne and
\* nb_reponses unchanged; the sort for the bar chart yields a separate copy,
\* sorted by score, and leaves the frame as it was.
C7_RecordsPreserved ==
    loaded # Unset =>
        /\ Len(df) = Len(loaded[1].value)
        /\ Fetched(df) = loaded[1].value
        /\ df_sorted # Unset =>
              /\ Len(df_sorted[1]) = Len(df)
              /\ \A i \in 1..Len(df) :
                    Cardinality({j \in 1..Len(df) : df_sorted[1][j] = df[i]})
                        = Cardinality({j \in 1..Len(df) : df[j] = df[i]})
              /\ \A i \in 1..(Len(df) - 1) :
                    df_sorted[1][i].score_10 <= df_sorted[1][i + 1].score_10

\* The sort has reordered the copy, the frame is still in the fetched order.
C7_Witness ==
    /\ df_sorted # Unset
    /\ df_sorted[1] # df
    /\ Fetched(df) = loaded[1].value
    /\ Len(df) = MaxRows

RECURSIVE ExactSum(_)
ExactSum(xs) == IF Len(xs) = 0 THEN 0 ELSE ExactSum(Tail(xs)) + Head(xs)

Scores(d) == [i \in 1..Len(d) |-> d[i].score_10]

\* C8: for a non-empty record set the global index is the arithmetic mean
\* of the normalized scores of all records (exactly their common value for
\* one record, and within the rounding of the n - 1 additions and the
\* division otherwise), and its tier is the classification of that mean
\* with the thresholds 3 and 6; one default-scale record of moyenne 3 gives
\* score 5.5, index 5.5, Medium.
C8_GlobalIndexIsMeanOfScores ==
    global_mean # Unset =>
        LET g == global_mean[1]
            n == Len(df)
            xs == Scores(df)
        IN  /\ n > 0
            /\ "index" \in page => pc \in {"metrics", "charts", "export", "done"}
            /\ n = 1 => g = xs[1]
            /\ Pow2(FloatPrecision) * Abs(n * g - ExactSum(xs))
                  <= 2 * n * ExactSum([i \in 1..n |-> Abs(xs[i])])
                     + n * Pow2(FloatPrecision - 1)
            /\ global_color = <<IF g <= 3 * Unit THEN "#e74c3c"
                                ELSE IF g <= 6 * Unit THEN "#f1c40f"
                                ELSE "#2ecc71">>
            /\ loaded[1].value = <<[section |-> "Charge de travail",
                                    moyenne |-> 3 * Unit, nb_reponses |-> 10]>>
                  => (2 * xs[1] = 11 * Unit /\ 2 * g = 11 * Unit
                      /\ global_color = <<"#f1c40f">>)

C8_Witness ==
    /\ global_mean # Unset /\ Len(df) = MaxRows
    /\ df[1].score_10 # df[2].score_10
    /\ df[1].moyenne = 3 * Unit /\ df[1].section = "Charge de travail"
    /\ global_color = <<"#f1c40f">>

\* C9: stats are not refetched more often than every 300 seconds: a GET to
\* /stats is issued only when none was issued before or at least 300 seconds
\* after the last one, and a run always works on the record set that is in
\* the cache.
C9_NoRefetchWithinTTL ==
    /\ [][(pc = "load_stats" /\ pc' = "fetching")
             => (since_get = Never \/ since_get >= 300)]_vars
    /\ [](loaded # Unset => (cache # Unset /\ loaded[1].value = cache[1].value))

\* A run served from the cache 299 seconds after the GET.
C9_Witness ==
    /\ loaded # Unset /\ loaded[1].cached
    /\ since_get = 299
    /\ Len(loaded[1].value) > 0

\* C10 as stated: the fraction passed to the progress bar lies in [0, 1]
\* for every non-empty fetched record set.
C10_ProgressInUnitInterval ==
    progress # Unset => (0 <= progress[1] /\ progress[1] <= 1 * Unit)

====
